---- MODULE Spec2Model ----
(***************************************************************************)
(* Credential authentication, session tokens and the authorization gate of *)
(* the dashboard starter: the three sign-in handlers (the basic and the    *)
(* advanced NextAuth `authorize`, and POST /api/auth/signin), the session   *)
(* token they issue, and the route gates (the three `withAuth` middlewares  *)
(* and the API wrappers withAuth / withRole).                               *)
(*                                                                         *)
(* Role and status values are written in lower case throughout; each       *)
(* source document spells them in its own case ('ADMIN' / 'admin').        *)
(* Time is in integer seconds.                                             *)
(***************************************************************************)
EXTENDS Integers, Sequences, FiniteSets, TLC

VARIABLES
    users,      \* the credential store: identifier -> UserRecord or NoUser
    config,     \* the deployed NextAuth configuration: "basic" or "advanced"
    now,        \* the clock, seconds
    cookie,     \* the session transport of the one client: a token or NoToken
    issued,     \* the claims and token of the latest successful sign-in
    resp,       \* the response to the latest request
    env,        \* process.env (the lengths of the secrets) and the process state
    rateLimitMap, \* the rate limiter's record of the one client address
    userTable,  \* the rows of the users table, as the sign-up handlers see it
    signups,    \* the sign-up requests in flight on the server
    signInForm, \* SignInForm: its React state and the progress of handleSubmit
    signUpForm, \* SignUpForm: its React state and the progress of handleSubmit
    location,   \* the browser's navigation: the path requested, what came of it
    authStore,  \* useAuthStore: the state of the client auth store
    requests,   \* the fetches of the auth store that are in flight
    history     \* what has happened so far, for the properties only

\* the server's variables of sign-in and the gates
server == <<users, config, now, cookie, issued, resp, env, rateLimitMap>>
\* registration
registration == <<userTable, signups>>
\* the browser
client == <<signInForm, signUpForm, location, authStore, requests>>
others == <<registration, client, history>>

vars == <<server, others>>

----------------------------------------------------------------------------
(* Bounds *)

\* The clock advances at most this many times.
MaxTicks == 2

\* The sign-up requests the server receives.
MaxSignUps == 2

\* A visit is followed through at most this many redirects.
MaxRedirects == 4

----------------------------------------------------------------------------
(* Data *)

Identifiers == {"a@x.com", "b@x.com"}
\* "" is a missing field of the submitted form.
Secrets == {"secret1", "wrong", ""}
Roles == {"admin", "moderator", "user"}
Statuses == {"active", "inactive", "pending", "suspended"}

NoUser == [none |-> "user"]
NoHash == [none |-> "hash"]
NoToken == [none |-> "token"]
NoIssue == [none |-> "issue"]
NoResp == [op |-> "none"]
NoRole == "none"
NoStatus == "none"
NoTime == -1

\* session lifetimes, in seconds
lifetimeSeconds == 86400
rememberMeLifetimeSeconds == 2592000
maxAge == 30 * 24 * 60 * 60

\* The two secrets of the process, and a key the process does not hold.
NEXTAUTH_SECRET == "nextauth-secret"
JWT_SECRET == "jwt-secret"
OtherKey == "not-the-secret"

----------------------------------------------------------------------------
(* The environment of the process *)

\* NEXTAUTH_SECRET must be at least this long.
MinSecretLength == 32

\* The lengths a secret of the environment can have; 0 is a missing variable.
SecretLengths == {0, 16, 32}

Environments ==
    [NEXTAUTH_SECRET : SecretLengths, JWT_SECRET : SecretLengths, process : {"starting"}]

\* validateEnvironment: NEXTAUTH_SECRET is required and length-checked;
\* JWT_SECRET is not looked at.
validateEnvironment(e) ==
    IF e.NEXTAUTH_SECRET = 0
    THEN [kind |-> "throw", error |-> "Missing required environment variables"]
    ELSE IF e.NEXTAUTH_SECRET < MinSecretLength
    THEN [kind |-> "throw", error |-> "NEXTAUTH_SECRET must be at least 32 characters long"]
    ELSE [kind |-> "ok"]

\* A process that passed validation with both secrets of full length.
ValidEnv == [NEXTAUTH_SECRET |-> 32, JWT_SECRET |-> 32, process |-> "serving"]

\* The length of the secret a key of the process is read from.
SecretLength(e, key) ==
    IF key = NEXTAUTH_SECRET THEN e.NEXTAUTH_SECRET ELSE e.JWT_SECRET

----------------------------------------------------------------------------
(* The in-memory rate limiter of the rate-limiting middleware *)

NoRecord == [none |-> "record"]

\* rateLimit(identifier, limit, windowMs) at Date.now() = t (milliseconds):
\* whether the request is allowed, and the record it leaves in rateLimitMap.
rateLimit(record, limit, windowMs, t) ==
    IF record = NoRecord \/ t > record.resetTime
    THEN [allowed |-> TRUE, record |-> [count |-> 1, resetTime |-> t + windowMs]]
    ELSE IF record.count >= limit
    THEN [allowed |-> FALSE, record |-> record]
    ELSE [allowed |-> TRUE, record |-> [record EXCEPT !.count = @ + 1]]

----------------------------------------------------------------------------
(* Password hasher: bcryptjs hash / compare *)

\* A faulty variant: every hash is made under the same salt
hash_Unsalted(secret, salt) == [salt |-> "salt1", of |-> secret]

\* hash embeds the salt it was given; the digest is a function of both.
hash(secret, salt) == [salt |-> salt, of |-> secret]

\* A stored value that is not a bcrypt hash (wrong length, damaged).
CorruptHash == [corrupt |-> "hash"]

\* compare recomputes the digest of the candidate under the embedded salt; a
\* value that is not a hash matches nothing.
compare(secret, hashed) ==
    IF hashed = CorruptHash THEN FALSE ELSE hash(secret, hashed.salt) = hashed

----------------------------------------------------------------------------
(* The credential store *)

UserRecords ==
    [id : {"u1"}, identifier : {"a@x.com"},
     password : {NoHash, CorruptHash, hash("secret1", "salt1")},
     role : Roles, status : Statuses, lastLoginAt : {NoTime}]

findUnique(store, email) == store[email]

----------------------------------------------------------------------------
(* The three sign-in handlers.  Each returns what the code returns: a user *)
(* object, null, a thrown Error, or an HTTP response.                      *)

Null == [kind |-> "null"]
Throw(msg) == [kind |-> "throw", error |-> msg]
Http(status, msg) == [kind |-> "http", status |-> status, error |-> msg]
User(id, role, status) == [kind |-> "user", id |-> id, role |-> role, status |-> status]

\* authorize of the basic configuration: no status check, no role returned
authorizeBasic(store, email, password) ==
    IF email = "" \/ password = "" THEN Null
    ELSE LET user == findUnique(store, email) IN
         IF user = NoUser THEN Null
         ELSE IF user.password = NoHash THEN Null
         ELSE IF ~compare(password, user.password) THEN Null
         ELSE User(user.id, NoRole, NoStatus)

\* A faulty variant: an unknown identifier gets an answer of its own
authorizeAdvanced_UserNotFound(store, email, password) ==
    IF email = "" \/ password = "" THEN Throw("Email and password are required")
    ELSE LET user == findUnique(store, email) IN
         IF user = NoUser THEN Throw("User not found")
         ELSE IF user.password = NoHash THEN Throw("Invalid credentials")
         ELSE IF ~compare(password, user.password) THEN Throw("Invalid credentials")
         ELSE IF user.status = "suspended" THEN Throw("Account is suspended")
         ELSE IF user.status = "pending" THEN Throw("Account is pending verification")
         ELSE User(user.id, user.role, user.status)

\* authorize of the advanced configuration: password first, then status
authorizeAdvanced(store, email, password) ==
    IF email = "" \/ password = "" THEN Throw("Email and password are required")
    ELSE LET user == findUnique(store, email) IN
         IF user = NoUser \/ user.password = NoHash THEN Throw("Invalid credentials")
         ELSE IF ~compare(password, user.password) THEN Throw("Invalid credentials")
         ELSE IF user.status = "suspended" THEN Throw("Account is suspended")
         ELSE IF user.status = "pending" THEN Throw("Account is pending verification")
         ELSE User(user.id, user.role, user.status)

\* POST /api/auth/signin up to the password check: status first, then the
\* password; bcrypt.compare rejects a null hash and the catch answers 500.
postSignInCheck(store, email, password) ==
    IF email = "" \/ password = "" THEN Http(400, "Validation failed")
    ELSE LET user == findUnique(store, email) IN
         IF user = NoUser THEN Http(401, "Invalid credentials")
         ELSE IF user.status # "active" THEN Http(401, "Account is not active")
         ELSE IF user.password = NoHash THEN Http(500, "Internal server error")
         ELSE IF ~compare(password, user.password) THEN Http(401, "Invalid credentials")
         ELSE User(user.id, user.role, NoStatus)

authorize(cfg, store, email, password) ==
    IF cfg = "basic" THEN authorizeBasic(store, email, password)
    ELSE authorizeAdvanced(store, email, password)

\* The result of an attempt in the vocabulary of the Authenticator's contract.
AuthResult(r) ==
    CASE r.kind = "user" -> "Ok"
      [] r.kind = "null" -> "InvalidCredentials"
      [] r.kind \in {"throw", "http"} /\ r.error = "Invalid credentials" -> "InvalidCredentials"
      [] r.kind \in {"throw", "http"} /\ r.error \in
            {"Account is not active", "Account is suspended",
             "Account is pending verification"} -> "AccountNotActive"
      [] OTHER -> "Failure"

----------------------------------------------------------------------------
(* The clients of the sign-in handlers: what the end user is shown *)

\* signIn('credentials', {redirect: false}): result.error is set when authorize
\* returned null ('CredentialsSignin') or threw (the Error's message).
signInError(r) ==
    CASE r.kind = "null" -> "CredentialsSignin"
      [] r.kind = "throw" -> r.error
      [] OTHER -> ""

\* A faulty variant: the form shows the error it was given
handleSubmit_ShowsError(r) == signInError(r)

\* SignInForm.handleSubmit: the message set by setError ("" is none)
handleSubmit(r) ==
    IF signInError(r) # "" THEN "Invalid email or password" ELSE ""

\* signIn of the auth store, the client of POST /api/auth/signin: the response
\* body has an `error` field and no `message`, so the fallback is shown.
authStoreSignIn(r) ==
    IF r.kind = "http" THEN "Sign in failed" ELSE ""

----------------------------------------------------------------------------
(* Session token codec.  A token is a payload and a signature; the         *)
(* signature is the message authentication code of the payload under a key.*)

MAC(payload, key) == [over |-> payload, key |-> key]

\* jwt.sign(payload, secret, {expiresIn}) and NextAuth's encode: iat is the
\* time of signing and exp = iat + expiresIn.
sign(claims, key, iat, expiresIn) ==
    LET payload == [sub |-> claims.id, role |-> claims.role, status |-> claims.status,
                    iat |-> iat, exp |-> iat + expiresIn]
    IN  [payload |-> payload, sig |-> MAC(payload, key)]

\* A faulty variant: the jwt callback copies the id only, whatever the configuration
jwtCallback_IdOnly(cfg, user) ==
    [id |-> user.id, role |-> NoRole, status |-> NoStatus]

\* The jwt callback: what of the user object is copied into the token.
jwtCallback(cfg, user) ==
    IF cfg = "basic" THEN [id |-> user.id, role |-> NoRole, status |-> NoStatus]
    ELSE [id |-> user.id, role |-> user.role, status |-> user.status]

\* A faulty variant: the session's role is read from the store on every request
sessionCallback_FromStore(cfg, token) ==
    [id |-> token.sub, role |-> users["a@x.com"].role]

\* The session callback: what of the decoded token is copied into session.user.
sessionCallback(cfg, token) ==
    IF cfg = "basic" THEN [id |-> token.sub, role |-> NoRole]
    ELSE [id |-> token.sub, role |-> token.role]

\* A faulty variant: decode renews the expiry it reports
decode_Sliding(token, key, t) ==
    IF token.sig # MAC(token.payload, key) THEN [kind |-> "TamperedOrInvalid"]
    ELSE IF token.payload.exp <= t THEN [kind |-> "Expired"]
    ELSE [kind |-> "Ok", claims |-> [token.payload EXCEPT !.exp = t + maxAge]]

\* A faulty variant: the expiry is read before the signature is checked
decode_ExpiryFirst(token, key, t) ==
    IF token.payload.exp <= t THEN [kind |-> "Expired"]
    ELSE IF token.sig # MAC(token.payload, key) THEN [kind |-> "TamperedOrInvalid"]
    ELSE [kind |-> "Ok", claims |-> token.payload]

\* A faulty variant: a token is still honoured at the very second it expires
decode_ExpiryStrict(token, key, t) ==
    IF token.sig # MAC(token.payload, key) THEN [kind |-> "TamperedOrInvalid"]
    ELSE IF token.payload.exp < t THEN [kind |-> "Expired"]
    ELSE [kind |-> "Ok", claims |-> token.payload]

\* decode: the signature is recomputed over the payload and compared first;
\* only then is the payload read and its expiry compared with the clock.
decode(token, key, t) ==
    IF token.sig # MAC(token.payload, key) THEN [kind |-> "TamperedOrInvalid"]
    ELSE IF token.payload.exp <= t THEN [kind |-> "Expired"]
    ELSE [kind |-> "Ok", claims |-> token.payload]

\* The SessionClaims a handler hands to the codec at time t.
SessionClaims(user, t, lifetime) ==
    [subjectId |-> user.id, role |-> user.role, issuedAt |-> t, expiresAt |-> t + lifetime]

\* The claims a decode returned, in the same vocabulary.
ClaimsOf(payload) ==
    [subjectId |-> payload.sub, role |-> payload.role,
     issuedAt |-> payload.iat, expiresAt |-> payload.exp]

----------------------------------------------------------------------------
(* Route gates *)

NoClaims == [none |-> "claims"]
NoSession == [none |-> "session"]

StartsWith(s, p) == Len(s) >= Len(p) /\ SubSeq(s, 1, Len(p)) = p

Pathnames == {"/", "/auth/sign-in", "/dashboard", "/dashboard/admin/users",
              "/admin", "/api/protected/items", "/api/users"}

\* getToken: the decoded session token of the request, or null
getToken(c, t) ==
    IF c = NoToken THEN NoClaims
    ELSE LET d == decode(c, NEXTAUTH_SECRET, t) IN
         IF d.kind = "Ok" THEN d.claims ELSE NoClaims

\* token?.role
roleOf(token) == IF token = NoClaims THEN NoRole ELSE token.role

\* getServerSession: null without a valid token, else the session callback's view
getServerSession(cfg, c, t) ==
    LET token == getToken(c, t) IN
    IF token = NoClaims THEN NoSession
    ELSE [user |-> sessionCallback(cfg, token)]

\* withAuth(middleware, {callbacks: {authorized}}): a request that is not
\* authorized is redirected to pages.signIn, the others go to the middleware.
withAuthMiddleware(isAuthorized, response) ==
    IF isAuthorized THEN response ELSE "redirect:/auth/sign-in"

\* A faulty variant: the protected API routes are left open
authorizedBasic_OpenApi(token, pathname) ==
    IF StartsWith(pathname, "/dashboard") THEN token # NoClaims
    ELSE TRUE

\* authorized callback of the basic middleware
authorizedBasic(token, pathname) ==
    IF StartsWith(pathname, "/dashboard") THEN token # NoClaims
    ELSE IF StartsWith(pathname, "/api/protected") THEN token # NoClaims
    ELSE TRUE

\* A faulty variant: the admin routes ask for a token only
authorizedProtection_AnyToken(token, pathname) ==
    IF StartsWith(pathname, "/dashboard") THEN token # NoClaims
    ELSE IF StartsWith(pathname, "/admin") THEN token # NoClaims
    ELSE TRUE

\* authorized callback of the route-protection middleware
authorizedProtection(token, pathname) ==
    IF StartsWith(pathname, "/dashboard") THEN token # NoClaims
    ELSE IF StartsWith(pathname, "/admin") THEN roleOf(token) = "admin"
    ELSE TRUE

\* authorized callback of the advanced middleware
authorizedAdvanced(token, pathname) ==
    IF StartsWith(pathname, "/auth") \/ pathname = "/" THEN TRUE
    ELSE IF StartsWith(pathname, "/dashboard") \/ StartsWith(pathname, "/api/protected")
         THEN token # NoClaims
    ELSE TRUE

\* the middleware function of the advanced middleware
middlewareAdvanced(token, pathname) ==
    IF token # NoClaims /\ StartsWith(pathname, "/auth") THEN "redirect:/dashboard"
    ELSE IF token = NoClaims /\ StartsWith(pathname, "/dashboard")
         THEN "redirect:/auth/sign-in"
    ELSE IF StartsWith(pathname, "/dashboard/admin")
            /\ (token = NoClaims \/ roleOf(token) # "admin")
         THEN "redirect:/dashboard"
    ELSE IF StartsWith(pathname, "/api/protected") /\ token = NoClaims
         THEN "json:401"
    ELSE "next"

\* withAuth of lib/api-middleware: 401 without a session
apiWithAuth(session, response) ==
    IF session = NoSession THEN "json:401" ELSE response

\* withRole of lib/api-middleware: 403 when the session's role is not allowed
apiWithRole(session, allowedRoles) ==
    apiWithAuth(session,
        IF session # NoSession /\ session.user.role \notin allowedRoles
        THEN "json:403" ELSE "next")

Gates == {"basic", "protection", "advanced", "withAuth", "withRole"}

gate(g, cfg, c, t, pathname, allowedRoles) ==
    LET token == getToken(c, t) IN
    CASE g = "basic" -> withAuthMiddleware(authorizedBasic(token, pathname), "next")
      [] g = "protection" -> withAuthMiddleware(authorizedProtection(token, pathname), "next")
      [] g = "advanced" -> withAuthMiddleware(authorizedAdvanced(token, pathname),
                                              middlewareAdvanced(token, pathname))
      [] g = "withAuth" -> apiWithAuth(getServerSession(cfg, c, t), "next")
      [] g = "withRole" -> apiWithRole(getServerSession(cfg, c, t), allowedRoles)

\* The decision the HTTP layer is handed.
Decision(response) ==
    CASE response = "next" -> "Allow"
      [] response \in {"redirect:/auth/sign-in", "json:401"} -> "DenyUnauthenticated"
      [] response \in {"redirect:/dashboard", "json:403"} -> "DenyInsufficientRole"

\* The route declarations each gate encodes: "public", "authenticated" (any
\* valid session) or "role-restricted".
RouteClassBasic(pathname) ==
    IF StartsWith(pathname, "/dashboard") \/ StartsWith(pathname, "/api/protected")
    THEN "authenticated" ELSE "public"

RouteClassProtection(pathname) ==
    IF StartsWith(pathname, "/dashboard") THEN "authenticated"
    ELSE IF StartsWith(pathname, "/admin") THEN "role-restricted"
    ELSE "public"

RouteClassAdvanced(pathname) ==
    IF StartsWith(pathname, "/auth") \/ pathname = "/" THEN "public"
    ELSE IF StartsWith(pathname, "/dashboard/admin") THEN "role-restricted"
    ELSE IF StartsWith(pathname, "/dashboard") \/ StartsWith(pathname, "/api/protected")
         THEN "authenticated"
    ELSE "public"

RouteClass(g, pathname) ==
    CASE g = "basic" -> RouteClassBasic(pathname)
      [] g = "protection" -> RouteClassProtection(pathname)
      [] g = "advanced" -> RouteClassAdvanced(pathname)
      [] g = "withAuth" -> "authenticated"
      [] g = "withRole" -> "role-restricted"

\* The roles a role-restricted route requires: withRole's allowedRoles, and
\* admin on the admin routes of the middlewares.
RequiredRoles(g, allowedRoles) ==
    IF g = "withRole" THEN allowedRoles ELSE {"admin"}

----------------------------------------------------------------------------
(* The clock *)

\* The number of advances that led to time t (each is one of the two lifetimes).
TicksOf(t) == (t \div rememberMeLifetimeSeconds)
              + ((t % rememberMeLifetimeSeconds) \div lifetimeSeconds)

Tick(d) ==
    /\ TicksOf(now) < MaxTicks
    /\ now' = now + d
    /\ resp' = NoResp
    /\ UNCHANGED <<users, config, env, others, rateLimitMap, cookie, issued>>

----------------------------------------------------------------------------
(* Sign-in *)

touchLastLogin(store, email, t) ==
    [store EXCEPT ![email] = [@ EXCEPT !.lastLoginAt = t]]

\* A credentials sign-in through NextAuth: authorize, the jwt callback, the
\* session cookie, and (advanced configuration) the signIn event.
SignInNextAuth(email, password) ==
    LET r == authorize(config, users, email, password) IN
    /\ resp' = [op |-> "signin", handler |-> config, email |-> email,
                password |-> password, rememberMe |-> FALSE, result |-> r,
                message |-> handleSubmit(r)]
    /\ IF r.kind = "user"
       THEN LET tok == sign(jwtCallback(config, r), NEXTAUTH_SECRET, now, maxAge) IN
            /\ cookie' = tok
            /\ issued' = [claims |-> SessionClaims(r, now, maxAge), token |-> tok]
            /\ users' = IF config = "advanced"
                        THEN touchLastLogin(users, email, now) ELSE users
       ELSE UNCHANGED <<cookie, issued, users>>
    /\ UNCHANGED <<config, env, others, rateLimitMap, now>>

\* The route handler of POST /api/auth/signin: the checks, jwt.sign (which
\* throws on an empty secret, answered 500 by the catch), the last-login update.
postSignIn(email, password, rememberMe) ==
    LET c == postSignInCheck(users, email, password)
        r == IF c.kind = "user" /\ env.JWT_SECRET = 0
             THEN Http(500, "Internal server error") ELSE c
        lifetime == IF rememberMe THEN rememberMeLifetimeSeconds ELSE lifetimeSeconds
    IN
    /\ resp' = [op |-> "signin", handler |-> "api", email |-> email,
                password |-> password, rememberMe |-> rememberMe, result |-> r,
                message |-> authStoreSignIn(r)]
    /\ IF r.kind = "user"
       THEN LET tok == sign(r, JWT_SECRET, now, lifetime) IN
            /\ cookie' = tok
            /\ issued' = [claims |-> SessionClaims(r, now, lifetime), token |-> tok]
            /\ users' = touchLastLogin(users, email, now)
       ELSE UNCHANGED <<cookie, issued, users>>

\* POST /api/auth/signin, reached directly.
PostSignIn(email, password, rememberMe) ==
    /\ postSignIn(email, password, rememberMe)
    /\ UNCHANGED <<config, env, others, rateLimitMap, now>>

\* signOut(): the client discards the token.
SignOut ==
    /\ cookie # NoToken
    /\ cookie' = NoToken
    /\ resp' = NoResp
    /\ UNCHANGED <<users, config, env, others, rateLimitMap, now, issued>>

----------------------------------------------------------------------------
(* What a client can do to the token it was issued *)

\* rewrite the role in the payload, keeping the signature
TamperRole(r) ==
    /\ issued # NoIssue /\ cookie = issued.token
    /\ r # cookie.payload.role
    /\ cookie' = [cookie EXCEPT !.payload.role = r]
    /\ resp' = NoResp
    /\ UNCHANGED <<users, config, env, others, rateLimitMap, now, issued>>

\* push the expiry of an expired token into the future, keeping the signature
TamperExpiry ==
    /\ issued # NoIssue /\ cookie = issued.token
    /\ cookie.payload.exp <= now
    /\ cookie' = [cookie EXCEPT !.payload.exp = now + lifetimeSeconds]
    /\ resp' = NoResp
    /\ UNCHANGED <<users, config, env, others, rateLimitMap, now, issued>>

\* replace the signature by one made without the process's secret
FlipSignature ==
    /\ issued # NoIssue /\ cookie = issued.token
    /\ cookie' = [cookie EXCEPT !.sig = MAC(cookie.payload, OtherKey)]
    /\ resp' = NoResp
    /\ UNCHANGED <<users, config, env, others, rateLimitMap, now, issued>>

----------------------------------------------------------------------------
(* Requests that present the token *)

\* decode of the token under one of the process's secrets
Decode(key) ==
    /\ cookie # NoToken
    /\ resp' = [op |-> "decode", key |-> key, result |-> decode(cookie, key, now)]
    /\ UNCHANGED <<users, config, env, others, rateLimitMap, now, cookie, issued>>

\* a request through one of the gates
Request(g, pathname, allowedRoles) ==
    /\ resp' = [op |-> "gate", gate |-> g, pathname |-> pathname,
                allowedRoles |-> allowedRoles,
                response |-> gate(g, config, cookie, now, pathname, allowedRoles)]
    /\ UNCHANGED <<users, config, env, others, rateLimitMap, now, cookie, issued>>

----------------------------------------------------------------------------
(* The server-side helpers requireAuth / requireRole *)

requireAuth(session) ==
    IF session = NoSession THEN Throw("Authentication required")
    ELSE [kind |-> "return", user |-> session.user]

requireRole(session, role) ==
    LET user == requireAuth(session) IN
    IF user.kind = "throw" THEN user
    ELSE IF user.user.role # role THEN Throw("Role required")
    ELSE user

\* a server component or route calls requireAuth()
RequireAuth ==
    /\ resp' = [op |-> "require", role |-> NoRole,
                result |-> requireAuth(getServerSession(config, cookie, now))]
    /\ UNCHANGED <<users, config, env, others, rateLimitMap, now, cookie, issued>>

\* a server component or route calls requireRole(role)
RequireRole(role) ==
    /\ resp' = [op |-> "require", role |-> role,
                result |-> requireRole(getServerSession(config, cookie, now), role)]
    /\ UNCHANGED <<users, config, env, others, rateLimitMap, now, cookie, issued>>

\* the Dashboard page: without a session the visitor is sent to sign-in
Dashboard(session) ==
    IF session = NoSession THEN "redirect:/auth/sign-in"
    ELSE "redirect:/dashboard/overview"

DashboardPage ==
    /\ resp' = [op |-> "page",
                response |-> Dashboard(getServerSession(config, cookie, now))]
    /\ UNCHANGED <<users, config, env, others, rateLimitMap, now, cookie, issued>>

----------------------------------------------------------------------------
(* The credential store changes; the client comes back or goes away *)

\* PUT /api/users/[id] by an administrator: the record's role is changed.
UpdateUser(email, role) ==
    /\ users[email] # NoUser /\ users[email].role # role
    /\ users' = [users EXCEPT ![email] = [@ EXCEPT !.role = role]]
    /\ resp' = NoResp
    /\ UNCHANGED <<config, env, others, rateLimitMap, now, cookie, issued>>

\* The client presents again the token it discarded at sign-out.
Replay ==
    /\ cookie = NoToken /\ issued # NoIssue
    /\ cookie' = issued.token
    /\ resp' = NoResp
    /\ UNCHANGED <<users, config, env, others, rateLimitMap, now, issued>>

\* The steps of a sign-in, in the order the handlers take them.
Steps == <<"lookup", "compare", "sign", "update", "respond">>

\* A faulty variant: the last-login time is written on every attempt
lastLoginWritten_Always(h, cfg, r, step) == TRUE

\* Whether a sign-in that got as far as `step` has written the last-login
\* time: only a successful one, after the token was made (the API handler's
\* update, the signIn event of the advanced configuration).
lastLoginWritten(h, cfg, r, step) ==
    /\ r.kind = "user"
    /\ h = "api" \/ cfg = "advanced"
    /\ step \in {"update", "respond"}

\* A sign-in that is cancelled (the client disconnects, the invocation is
\* stopped) when it has got as far as `step`: no response, with its token,
\* reaches the client.
SignInAbandoned(h, email, password, step) ==
    LET r == IF h = "api" THEN postSignInCheck(users, email, password)
             ELSE authorize(config, users, email, password)
    IN
    /\ resp' = [op |-> "cancelled", handler |-> h, email |-> email,
                password |-> password, step |-> step, result |-> r]
    /\ users' = IF lastLoginWritten(h, config, r, step)
                THEN touchLastLogin(users, email, now) ELSE users
    /\ UNCHANGED <<config, env, others, rateLimitMap, now, cookie, issued>>

----------------------------------------------------------------------------
(* Start-up *)

\* The environment is validated when the process starts; a failure halts it.
Startup ==
    /\ env.process = "starting"
    /\ LET v == validateEnvironment(env) IN
       /\ env' = [env EXCEPT !.process = IF v.kind = "ok" THEN "serving" ELSE "halted"]
       /\ resp' = [op |-> "startup", result |-> v]
    /\ UNCHANGED <<users, config, rateLimitMap, now, cookie, issued, others>>

\* Requests are served by a process that has started.
Serving == env.process = "serving"

----------------------------------------------------------------------------
(* The rate-limiting middleware in front of the API routes *)

\* middleware(request): both limits are counted in the one record of the
\* client address; the answer, and the record left in rateLimitMap.
middlewareRateLimit(record, pathname, t) ==
    LET api == IF StartsWith(pathname, "/api/")
               THEN rateLimit(record, 100, 60000, t)
               ELSE [allowed |-> TRUE, record |-> record]
        auth == IF StartsWith(pathname, "/api/auth/")
                THEN rateLimit(api.record, 10, 60000, t)
                ELSE [allowed |-> TRUE, record |-> api.record]
    IN  IF ~api.allowed
        THEN [response |-> Http(429, "Too many requests"), record |-> api.record]
        ELSE IF ~auth.allowed
        THEN [response |-> Http(429, "Too many authentication attempts"),
              record |-> auth.record]
        ELSE [response |-> [kind |-> "next"], record |-> auth.record]

\* Date.now(), in milliseconds
DateNow == now * 1000

\* A request at Date.now() finds no record, or one whose window is over.
NewWindow == rateLimitMap = NoRecord \/ DateNow > rateLimitMap.resetTime

\* The requests to /api/auth/ admitted in the current window, one more when
\* this one is.
Admitted(counter, admitted) ==
    (IF NewWindow THEN 0 ELSE counter) + (IF admitted THEN 1 ELSE 0)

\* POST /api/auth/signin behind the rate-limiting middleware
RateLimitedSignIn(email, password, rememberMe) ==
    LET m == middlewareRateLimit(rateLimitMap, "/api/auth/signin", DateNow) IN
    /\ rateLimitMap' = m.record
    /\ IF m.response.kind = "next"
       THEN postSignIn(email, password, rememberMe)
       ELSE /\ resp' = [op |-> "signin", handler |-> "api", email |-> email,
                        password |-> password, rememberMe |-> rememberMe,
                        result |-> m.response,
                        message |-> authStoreSignIn(m.response)]
            /\ UNCHANGED <<cookie, issued, users>>
    /\ history' = [history EXCEPT
            !.authAdmitted = Admitted(@, m.response.kind = "next")]
    /\ UNCHANGED <<config, env, now, registration, client>>

\* an API route wrapped in withAuth, behind the rate-limiting middleware
RateLimitedRequest(pathname) ==
    LET m == middlewareRateLimit(rateLimitMap, pathname, DateNow) IN
    /\ rateLimitMap' = m.record
    /\ resp' = [op |-> "api", pathname |-> pathname,
                response |-> IF m.response.kind = "next"
                             THEN gate("withAuth", config, cookie, now, pathname, {})
                             ELSE "json:429"]
    /\ history' = [history EXCEPT !.authAdmitted = Admitted(@, FALSE)]
    /\ UNCHANGED <<users, config, env, now, cookie, issued, registration, client>>

----------------------------------------------------------------------------
(* Registration: POST /api/auth/signup and signUpAction, step by step *)

\* The salts bcrypt can draw.
Salts == {"salt1", "salt2", "salt3"}

\* The salts embedded in the hashes made so far.
UsedSalts == {history.hashed[i].hashed.salt : i \in 1..Len(history.hashed)}

\* bcrypt.hash(password, 12): the second argument is a cost, so bcrypt draws
\* the salt itself, at random; a random salt is taken never to repeat.
genSalt == Salts \ UsedSalts

NoSignUp == [pc |-> "none"]

\* A faulty variant: the table accepts a second row with the same email
create_NoUnique(table, row) == [ok |-> TRUE, table |-> table \cup {row}]

\* prisma.user.create on a table whose email column is @unique: the insert
\* of a second row with the same email is rejected (and create throws).
create(table, row) ==
    IF \E r \in table : r.email = row.email
    THEN [ok |-> FALSE, table |-> table]
    ELSE [ok |-> TRUE, table |-> table \cup {row}]

\* the request arrives with a valid body
SignUpBegin(i, email, password) ==
    /\ signups[i] = NoSignUp
    /\ signups' = [signups EXCEPT ![i] =
            [pc |-> "lookup", email |-> email, password |-> password,
             hashedPassword |-> NoHash, response |-> NoResp]]
    /\ UNCHANGED <<server, userTable, client, history>>

\* prisma.user.findUnique({where: {email}}); 409 when the user exists
SignUpLookup(i) ==
    /\ signups[i].pc = "lookup"
    /\ signups' = [signups EXCEPT ![i] =
            IF \E r \in userTable : r.email = signups[i].email
            THEN [@ EXCEPT !.pc = "done",
                           !.response = Http(409, "User with this email already exists")]
            ELSE [@ EXCEPT !.pc = "hash"]]
    /\ UNCHANGED <<server, userTable, client, history>>

\* bcrypt.hash(password, 12)
SignUpHash(i) ==
    /\ signups[i].pc = "hash"
    /\ \E salt \in genSalt :
          LET h == hash(signups[i].password, salt) IN
          /\ signups' = [signups EXCEPT ![i] = [@ EXCEPT !.pc = "create",
                                                         !.hashedPassword = h]]
          /\ history' = [history EXCEPT !.hashed =
                Append(@, [secret |-> signups[i].password, hashed |-> h])]
    /\ UNCHANGED <<server, userTable, client>>

\* prisma.user.create; 201 with the user, or 500 from the catch
SignUpCreate(i) ==
    /\ signups[i].pc = "create"
    /\ LET c == create(userTable,
                    [id |-> i, email |-> signups[i].email,
                     password |-> signups[i].hashedPassword,
                     role |-> "user", status |-> "active"])
       IN /\ userTable' = c.table
          /\ signups' = [signups EXCEPT ![i] = [@ EXCEPT !.pc = "done",
                !.response = IF c.ok THEN Http(201, "")
                             ELSE Http(500, "Internal server error")]]
    /\ UNCHANGED <<server, client, history>>

----------------------------------------------------------------------------
(* The sign-in form: handleSubmit, from the submit to the end of the handler *)

\* What `await signIn(...)` and `await getSession()` come to.
SignInOutcomes == {"error", "session", "no session", "throws"}

\* the form of the application, or the one of the authentication guideline
SignInFormVariants == {"app", "guideline"}

\* the submit button is enabled: setIsLoading(true), setError('')
SignInFormSubmit ==
    /\ signInForm.pc \in {"idle", "finished"} /\ ~signInForm.isLoading
    /\ signInForm.pushed = ""
    /\ signInForm' = [signInForm EXCEPT !.isLoading = TRUE, !.error = "",
                                         !.pc = "awaiting", !.outcome = ""]
    /\ UNCHANGED <<server, registration, signUpForm, location, authStore,
                   requests, history>>

\* The rest of handleSubmit of the application's form: only the catch sets
\* isLoading back to false.
handleSubmitApp(form, outcome) ==
    CASE outcome = "error" -> [form EXCEPT !.error = "Invalid email or password"]
      [] outcome = "session" -> [form EXCEPT !.pushed = "/dashboard/overview"]
      [] outcome = "no session" -> form
      [] outcome = "throws" -> [form EXCEPT !.isLoading = FALSE,
                                   !.error = "An error occurred. Please try again."]

\* The rest of handleSubmit of the guideline's form: `finally` sets isLoading
\* back to false.
handleSubmitGuideline(form, outcome) ==
    LET f == CASE outcome = "error" -> [form EXCEPT !.error = "Invalid credentials"]
               [] outcome = "session" -> [form EXCEPT !.pushed = "/dashboard"]
               [] outcome = "no session" -> form
               [] outcome = "throws" ->
                    [form EXCEPT !.error = "An error occurred. Please try again."]
    IN  [f EXCEPT !.isLoading = FALSE]

\* signIn settles and handleSubmit runs to its end
SignInFormSettle(outcome) ==
    /\ signInForm.pc = "awaiting"
    /\ signInForm' =
          [(IF signInForm.variant = "app" THEN handleSubmitApp(signInForm, outcome)
            ELSE handleSubmitGuideline(signInForm, outcome))
           EXCEPT !.pc = "finished", !.outcome = outcome]
    /\ UNCHANGED <<server, registration, signUpForm, location, authStore,
                   requests, history>>

----------------------------------------------------------------------------
(* The sign-up form *)

Passwords == {"secret1", "secret2", "short"}

SignUpOutcomes == {"ok", "not ok, message", "not ok", "throws"}

\* A faulty variant: the length is checked before the confirmation
validateSignUp_LengthFirst(password, confirmPassword) ==
    IF Len(password) < 6 THEN "Password must be at least 6 characters long"
    ELSE IF password # confirmPassword THEN "Passwords do not match"
    ELSE ""

\* The validation at the head of handleSubmit: the error it sets, "" if none.
validateSignUp(password, confirmPassword) ==
    IF password # confirmPassword THEN "Passwords do not match"
    ELSE IF Len(password) < 6 THEN "Password must be at least 6 characters long"
    ELSE ""

\* the form is submitted: validation, and the request if it passes
SignUpFormSubmit(password, confirmPassword) ==
    /\ signUpForm.pc \in {"idle", "finished"} /\ signUpForm.pushed = ""
    /\ LET error == validateSignUp(password, confirmPassword) IN
       signUpForm' = [signUpForm EXCEPT
            !.password = password, !.confirmPassword = confirmPassword,
            !.error = error, !.outcome = "",
            !.isLoading = (error = ""),
            !.sent = (error = ""),
            !.pc = IF error = "" THEN "awaiting" ELSE "finished"]
    /\ UNCHANGED <<server, registration, signInForm, location, authStore,
                   requests, history>>

\* the response arrives (or the hash or the fetch throws); `finally`
SignUpFormSettle(outcome) ==
    /\ signUpForm.pc = "awaiting"
    /\ signUpForm' = [signUpForm EXCEPT
            !.pc = "finished", !.outcome = outcome, !.isLoading = FALSE,
            !.error = CASE outcome = "ok" -> ""
                        [] outcome = "not ok, message" -> "message of the response"
                        [] outcome = "not ok" -> "An error occurred during registration"
                        [] outcome = "throws" -> "An error occurred. Please try again.",
            !.pushed = IF outcome = "ok" THEN "/auth/sign-in" ELSE ""]
    /\ UNCHANGED <<server, registration, signInForm, location, authStore,
                   requests, history>>

----------------------------------------------------------------------------
(* Pages: a visit, and the redirects the middleware and the pages answer *)

\* the deployed middleware.ts, if any
Middlewares == {"none", "basic", "advanced"}

VisitedPaths == {"/dashboard", "/auth/sign-in", "/auth/sign-up"}

\* Page of /auth/sign-in
SignInPage(session) ==
    IF session # NoSession THEN "redirect:/dashboard/overview" ELSE "render:SignInForm"

\* Page of /auth/sign-up
SignUpPage(session) ==
    IF session # NoSession THEN "redirect:/dashboard/overview" ELSE "render:SignUpForm"

\* The page of a path; /dashboard/overview renders.
page(pathname, session) ==
    CASE pathname = "/dashboard" -> Dashboard(session)
      [] pathname = "/auth/sign-in" -> SignInPage(session)
      [] pathname = "/auth/sign-up" -> SignUpPage(session)
      [] OTHER -> "render:overview"

\* The answer to a request for a page: the middleware's, or else the page's.
respond(mw, cfg, c, t, pathname) ==
    LET m == IF mw = "none" THEN "next" ELSE gate(mw, cfg, c, t, pathname, {}) IN
    IF m = "next" THEN page(pathname, getServerSession(cfg, c, t)) ELSE m

\* the visitor opens a path
Visit(pathname) ==
    /\ location.state # "requested"
    /\ location' = [location EXCEPT !.start = pathname, !.path = pathname,
                                     !.redirects = 0, !.state = "requested",
                                     !.view = "",
                                     !.withSession =
                                        getServerSession(config, cookie, now) # NoSession]
    /\ UNCHANGED <<server, registration, signInForm, signUpForm, authStore,
                   requests, history>>

\* the server answers the request; the browser follows a redirect
Navigate ==
    /\ location.state = "requested"
    /\ LET r == respond(location.middleware, config, cookie, now, location.path) IN
       IF StartsWith(r, "redirect:")
       THEN /\ location.redirects < MaxRedirects
            /\ location' = [location EXCEPT !.redirects = @ + 1,
                                !.path = SubSeq(r, Len("redirect:") + 1, Len(r))]
       ELSE location' = [location EXCEPT !.state = "rendered", !.view = r]
    /\ UNCHANGED <<server, registration, signInForm, signUpForm, authStore,
                   requests, history>>

\* The session does not change while a visit is under way.
Settled == location.state # "requested"

----------------------------------------------------------------------------
(* The client auth store (useAuthStore) *)

JsNull == [js |-> "null"]
JsUndefined == [js |-> "undefined"]

\* !!value
Truthy(value) == value \notin {JsNull, JsUndefined}

\* body.name of a parsed response body
field(body, name) == IF name \in DOMAIN body THEN body[name] ELSE JsUndefined

UserObjects == {[id |-> "u1", name |-> "a"], [id |-> "u1", name |-> "b"]}
StoreTokens == {[jwt |-> "t1"], [jwt |-> "t2"]}

\* The body POST /api/auth/signin and POST /api/auth/signup answer with on
\* success: {success, data: {user, token, expiresIn}}.
SignInBodies ==
    {[success |-> TRUE, data |-> [user |-> u, token |-> t, expiresIn |-> "1d"]] :
        u \in UserObjects, t \in StoreTokens}

\* The bodies the store expects of /api/auth/refresh and /api/user/profile,
\* whose handlers the repository does not have.
RefreshBodies == {[token |-> t, expiresAt |-> 86400] : t \in StoreTokens}
ProfileBodies == UserObjects

RequestKinds == {"signIn", "signUp", "refreshToken", "updateProfile"}

NoSessionState == [token |-> JsNull, expiresAt |-> JsNull]

\* setUser
setUser(state, user) ==
    [state EXCEPT !.user = user, !.isAuthenticated = Truthy(user)]

\* setSession
setSession(state, token, expiresAt) ==
    [state EXCEPT !.session = [token |-> token, expiresAt |-> expiresAt]]

\* signOut
signOut(state) ==
    [state EXCEPT !.user = JsNull, !.isAuthenticated = FALSE,
                  !.session = NoSessionState, !.error = JsNull]

\* Whether the action goes on to its fetch, or returns at once.
starts(state, kind) ==
    CASE kind \in {"signIn", "signUp"} -> TRUE
      [] kind = "refreshToken" -> Truthy(state.session.token)
      [] kind = "updateProfile" -> Truthy(state.user) /\ Truthy(state.session.token)

\* What the action sets before its fetch.
begin(state, kind) ==
    IF kind = "refreshToken" THEN state
    ELSE [state EXCEPT !.isLoading = TRUE, !.error = JsNull]

\* What the action sets when its response is ok.
succeed(state, kind, body) ==
    CASE kind \in {"signIn", "signUp"} ->
            [state EXCEPT !.user = field(body, "user"), !.isAuthenticated = TRUE,
                          !.session = [token |-> field(body, "token"),
                                       expiresAt |-> field(body, "expiresAt")],
                          !.isLoading = FALSE]
      [] kind = "refreshToken" ->
            [state EXCEPT !.session = [token |-> field(body, "token"),
                                       expiresAt |-> field(body, "expiresAt")]]
      [] kind = "updateProfile" ->
            [state EXCEPT !.user = body, !.isLoading = FALSE]

\* What the action sets in its catch.
fail(state, kind) ==
    IF kind = "refreshToken"
    THEN [state EXCEPT !.user = JsNull, !.isAuthenticated = FALSE,
                       !.session = NoSessionState]
    ELSE [state EXCEPT !.error = [js |-> "string", value |-> "failed"],
                       !.isLoading = FALSE]

\* The bodies an ok response to the action's fetch can have.
Bodies(kind) ==
    CASE kind \in {"signIn", "signUp"} -> SignInBodies
      [] kind = "refreshToken" -> RefreshBodies
      [] kind = "updateProfile" -> ProfileBodies

StoreSetUser(user) ==
    /\ authStore' = setUser(authStore, user)
    /\ history' = [history EXCEPT !.signedOut = FALSE]
    /\ UNCHANGED <<server, registration, signInForm, signUpForm, location, requests>>

StoreSetSession(token) ==
    /\ authStore' = setSession(authStore, token, 86400)
    /\ history' = [history EXCEPT !.signedOut = FALSE]
    /\ UNCHANGED <<server, registration, signInForm, signUpForm, location, requests>>

\* signOut(); the requests in flight are from before it
StoreSignOut ==
    /\ authStore' = signOut(authStore)
    /\ requests' = {[r EXCEPT !.beforeSignOut = TRUE] : r \in requests}
    /\ history' = [history EXCEPT !.signedOut = TRUE]
    /\ UNCHANGED <<server, registration, signInForm, signUpForm, location>>

\* an action is called and, unless it returns at once, sends its request
StoreStart(kind) ==
    /\ starts(authStore, kind)
    /\ \A r \in requests : r.kind # kind
    /\ authStore' = begin(authStore, kind)
    /\ requests' = requests \cup {[kind |-> kind, beforeSignOut |-> FALSE]}
    /\ history' = [history EXCEPT !.signedOut = FALSE]
    /\ UNCHANGED <<server, registration, signInForm, signUpForm, location>>

\* the response to a request in flight arrives and the action finishes
StoreFinish(r, ok) ==
    /\ r \in requests
    /\ requests' = requests \ {r}
    /\ UNCHANGED history
    /\ IF ok
       THEN /\ \E body \in Bodies(r.kind) : authStore' = succeed(authStore, r.kind, body)
       ELSE authStore' = fail(authStore, r.kind)
    /\ UNCHANGED <<server, registration, signInForm, signUpForm, location>>

----------------------------------------------------------------------------
(* Specifications *)

StoreWith(u) == [i \in Identifiers |-> IF i = "a@x.com" THEN u ELSE NoUser]

\* No sign-up has arrived, nothing was hashed, nothing counted.
InitRegistration ==
    /\ userTable = {}
    /\ signups = [i \in 1..MaxSignUps |-> NoSignUp]
    /\ history = [authAdmitted |-> 0, hashed |-> <<>>, signedOut |-> FALSE]

\* The client as it is mounted: idle forms, no visit, the store's initial state.
InitClient(variant, mw) ==
    /\ signInForm = [variant |-> variant, isLoading |-> FALSE, error |-> "",
                     pc |-> "idle", pushed |-> "", outcome |-> ""]
    /\ signUpForm = [password |-> "", confirmPassword |-> "", isLoading |-> FALSE,
                     error |-> "", pc |-> "idle", sent |-> FALSE, pushed |-> "",
                     outcome |-> ""]
    /\ location = [middleware |-> mw, start |-> "", path |-> "", redirects |-> 0,
                   state |-> "idle", view |-> "", withSession |-> FALSE]
    /\ authStore = [user |-> JsNull, isAuthenticated |-> FALSE, isLoading |-> FALSE,
                    error |-> JsNull, session |-> NoSessionState]
    /\ requests = {}

\* The sign-in handlers over every store: one record of any role, status and
\* password state under "a@x.com", no record under "b@x.com".
InitAuth ==
    /\ users \in {StoreWith(u) : u \in UserRecords}
    /\ config \in {"basic", "advanced"}
    /\ now = 0
    /\ cookie = NoToken
    /\ issued = NoIssue
    /\ resp = NoResp
    /\ env = ValidEnv
    /\ rateLimitMap = NoRecord
    /\ InitRegistration
    /\ InitClient("app", "none")

NextAuth ==
    \/ \E e \in Identifiers, p \in Secrets : SignInNextAuth(e, p)
    \/ \E e \in Identifiers, p \in Secrets, rm \in BOOLEAN : PostSignIn(e, p, rm)
    \/ SignOut

SpecAuth == InitAuth /\ [][NextAuth]_vars

\* The whole flow, from sign-in to the gates, for an active user with a
\* password, of any role.
Init ==
    /\ users \in {StoreWith(u) : u \in {v \in UserRecords :
                        v.status = "active" /\ v.password \notin {NoHash, CorruptHash}}}
    /\ config \in {"basic", "advanced"}
    /\ now = 0
    /\ cookie = NoToken
    /\ issued = NoIssue
    /\ resp = NoResp
    /\ env = ValidEnv
    /\ rateLimitMap = NoRecord
    /\ InitRegistration
    /\ InitClient("app", "none")

Next ==
    \/ \E d \in {lifetimeSeconds, rememberMeLifetimeSeconds} : Tick(d)
    \/ \E p \in {"secret1", "wrong"} : SignInNextAuth("a@x.com", p)
    \/ \E rm \in BOOLEAN : PostSignIn("a@x.com", "secret1", rm)
    \/ SignOut
    \/ \E r \in Roles : TamperRole(r)
    \/ TamperExpiry
    \/ FlipSignature
    \/ \E k \in {NEXTAUTH_SECRET, JWT_SECRET} : Decode(k)
    \/ \E g \in Gates \ {"withRole"}, p \in Pathnames : Request(g, p, {})
    \/ \E a \in {{"admin"}, {"admin", "moderator"}} : Request("withRole", "/api/users", a)

Spec == Init /\ [][Next]_vars

\* Sessions over a store whose roles change: sign-in, sign-out and a replay of
\* the discarded token, abandoned sign-ins, the gates and the server helpers.
NextSession ==
    \/ Tick(lifetimeSeconds)
    \/ \E p \in {"secret1", "wrong"} : SignInNextAuth("a@x.com", p)
    \/ PostSignIn("a@x.com", "secret1", FALSE)
    \/ \E h \in {"nextauth", "api"}, p \in {"secret1", "wrong"},
          i \in 1..(Len(Steps) - 1) :
            SignInAbandoned(h, "a@x.com", p, Steps[i])
    \/ SignOut
    \/ Replay
    \/ \E r \in Roles : UpdateUser("a@x.com", r)
    \/ \E g \in Gates \ {"withRole"}, p \in Pathnames : Request(g, p, {})
    \/ Request("withRole", "/api/users", {"admin"})
    \/ DashboardPage
    \/ RequireAuth
    \/ RequireRole("admin")

SpecSession == Init /\ [][NextSession]_vars

\* Start-up under every environment, then sign-in and decode.
InitEnv ==
    /\ users \in {StoreWith(u) : u \in {v \in UserRecords :
                        v.status = "active" /\ v.password \notin {NoHash, CorruptHash}}}
    /\ config \in {"basic", "advanced"}
    /\ now = 0
    /\ cookie = NoToken
    /\ issued = NoIssue
    /\ resp = NoResp
    /\ env \in Environments
    /\ rateLimitMap = NoRecord
    /\ InitRegistration
    /\ InitClient("app", "none")

NextEnv ==
    \/ Startup
    \/ Serving /\ \E p \in {"secret1", "wrong"} : SignInNextAuth("a@x.com", p)
    \/ Serving /\ \E rm \in BOOLEAN : PostSignIn("a@x.com", "secret1", rm)
    \/ Serving /\ SignOut
    \/ Serving /\ \E k \in {NEXTAUTH_SECRET, JWT_SECRET} : Decode(k)

SpecEnv == InitEnv /\ [][NextEnv]_vars

\* The API routes behind the rate-limiting middleware.
NextRate ==
    \/ Tick(lifetimeSeconds)
    \/ \E p \in {"secret1", "wrong"} : RateLimitedSignIn("a@x.com", p, FALSE)
    \/ \E p \in {"/api/users", "/api/protected/items"} : RateLimitedRequest(p)
    \/ SignOut

SpecRate == Init /\ [][NextRate]_vars

\* The server part of a deployment with one active user.
InitServer ==
    /\ users = StoreWith([id |-> "u1", identifier |-> "a@x.com",
                          password |-> hash("secret1", "salt1"), role |-> "user",
                          status |-> "active", lastLoginAt |-> NoTime])
    /\ config = "advanced"
    /\ now = 0
    /\ cookie = NoToken
    /\ issued = NoIssue
    /\ resp = NoResp
    /\ env = ValidEnv
    /\ rateLimitMap = NoRecord

\* Concurrent sign-ups.
InitSignUp == InitServer /\ InitRegistration /\ InitClient("app", "none")

NextSignUp ==
    \/ \E i \in 1..MaxSignUps, e \in Identifiers, p \in {"secret1", "secret2"} :
          SignUpBegin(i, e, p)
    \/ \E i \in 1..MaxSignUps : SignUpLookup(i)
    \/ \E i \in 1..MaxSignUps : SignUpHash(i)
    \/ \E i \in 1..MaxSignUps : SignUpCreate(i)

SpecSignUp == InitSignUp /\ [][NextSignUp]_vars

\* The sign-in form, in both variants, and the sign-up form.
InitForms ==
    /\ InitServer /\ InitRegistration
    /\ \E v \in SignInFormVariants : InitClient(v, "none")

NextForms ==
    \/ SignInFormSubmit
    \/ \E o \in SignInOutcomes : SignInFormSettle(o)
    \/ \E p \in Passwords, c \in Passwords : SignUpFormSubmit(p, c)
    \/ \E o \in SignUpOutcomes : SignUpFormSettle(o)

SpecForms == InitForms /\ [][NextForms]_vars

\* Visits to the pages under each middleware, between sign-ins and sign-outs.
InitPages ==
    /\ InitServer /\ InitRegistration
    /\ \E m \in Middlewares : InitClient("app", m)

NextPages ==
    \/ Settled /\ \E p \in {"secret1", "wrong"} : SignInNextAuth("a@x.com", p)
    \/ Settled /\ SignOut
    \/ Settled /\ Tick(rememberMeLifetimeSeconds)
    \/ \E p \in VisitedPaths : Visit(p)
    \/ Navigate

SpecPages == InitPages /\ [][NextPages]_vars

\* The client auth store: its actions, and their responses in any order.
NextStore ==
    \/ \E u \in UserObjects \cup {JsNull} : StoreSetUser(u)
    \/ \E t \in StoreTokens : StoreSetSession(t)
    \/ StoreSignOut
    \/ \E k \in RequestKinds : StoreStart(k)
    \/ \E r \in requests, ok \in BOOLEAN : StoreFinish(r, ok)

SpecStore == InitSignUp /\ [][NextStore]_vars
----------------------------------------------------------------------------
(* Properties of the sign-in handlers (SpecAuth) *)

\* The record the latest sign-in looked up.
Looked == users[resp.email]

\* A sign-in whose form fields were all filled in was answered.
SignedIn == resp.op = "signin" /\ resp.password # ""

HandlerResult(h, store, email, password) ==
    IF h = "api" THEN postSignInCheck(store, email, password)
    ELSE authorize(h, store, email, password)

\* C2: a sign-in with the matching secret of an active record that has a
\* password hash is answered Ok, and the session claims it issues carry that
\* record's id as subjectId and that record's role as role.
C2_OkCarriesIdAndRole ==
    (SignedIn /\ Looked # NoUser /\ Looked.status = "active"
        /\ Looked.password # NoHash /\ compare(resp.password, Looked.password))
    => /\ AuthResult(resp.result) = "Ok"
       /\ issued # NoIssue
       /\ issued.claims.subjectId = Looked.id
       /\ issued.claims.role = Looked.role

\* C3: a sign-in for a suspended record is never answered Ok, whatever the
\* secret, and no session claims are issued while the record is suspended.
C3_SuspendedNeverOk ==
    /\ (resp.op = "signin" /\ Looked # NoUser /\ Looked.status = "suspended")
          => AuthResult(resp.result) # "Ok"
    /\ (users["a@x.com"] # NoUser /\ users["a@x.com"].status = "suspended")
          => issued = NoIssue

C5_StatusGatesFirst ==
    (SignedIn /\ Looked # NoUser /\ Looked.password # NoHash
        /\ Looked.status \in {"suspended", "pending"})
    => AuthResult(resp.result) = "AccountNotActive"

----------------------------------------------------------------------------
(* Properties of the gates and of the codec (Spec) *)

Gated == resp.op = "gate"
Class == RouteClass(resp.gate, resp.pathname)
Required == RequiredRoles(resp.gate, resp.allowedRoles)
Outcome == Decision(resp.response)

\* The token of the request verifies under the gates' secret and is unexpired.
SignatureVerifies == cookie # NoToken /\ cookie.sig = MAC(cookie.payload, NEXTAUTH_SECRET)
Unexpired == cookie # NoToken /\ cookie.payload.exp > now

\* C1: on a route that is not public the gate allows the request if and only
\* if its token verifies under the signing secret, is unexpired and names a
\* role the route requires (any role on an 'authenticated' route).
C1_AllowIffValidSession ==
    (Gated /\ Class # "public")
    => (Outcome = "Allow"
        <=> /\ SignatureVerifies
            /\ Unexpired
            /\ (Class = "authenticated" \/ cookie.payload.role \in Required))

C1_Witness ==
    Gated /\ Class = "role-restricted" /\ Outcome = "Allow"

\* C6: on a route restricted to {admin}: no token is DenyUnauthenticated, a
\* valid session of role user is DenyInsufficientRole, a valid session of role
\* admin is Allow.
C6_AuthorizationMatrix ==
    (Gated /\ Class = "role-restricted" /\ Required = {"admin"})
    => /\ cookie = NoToken => Outcome = "DenyUnauthenticated"
       /\ (SignatureVerifies /\ Unexpired /\ cookie.payload.role = "user")
             => Outcome = "DenyInsufficientRole"
       /\ (SignatureVerifies /\ Unexpired /\ cookie.payload.role = "admin")
             => Outcome = "Allow"

\* C7: on a route that is not public the gate answers DenyUnauthenticated
\* exactly when the token is absent or does not decode; a token that does not
\* decode is never answered Allow or DenyInsufficientRole.
C7_UnauthenticatedIffNoValidToken ==
    (Gated /\ Class # "public")
    => (Outcome = "DenyUnauthenticated" <=> ~(SignatureVerifies /\ Unexpired))

\* C8: decode of a token whose signature is not the MAC of its payload under
\* the secret answers TamperedOrInvalid, whatever the payload says, also when
\* the payload's expiry has passed.
C8_TamperLaw ==
    (resp.op = "decode" /\ cookie.sig # MAC(cookie.payload, resp.key))
    => resp.result = [kind |-> "TamperedOrInvalid"]

C8_Witness ==
    /\ resp.op = "decode" /\ cookie.sig # MAC(cookie.payload, resp.key)
    /\ cookie.sig.key = resp.key
    /\ cookie.payload.exp <= now

\* C9: decode of a correctly signed token answers Expired whenever its expiry
\* is at or before the clock, and the clock never goes back.
C9_ExpiryLaw ==
    /\ [](  (resp.op = "decode" /\ cookie.sig = MAC(cookie.payload, resp.key)
                /\ cookie.payload.exp <= now)
            => resp.result.kind = "Expired")
    /\ [][now' >= now]_vars

C9_Witness ==
    /\ resp.op = "decode" /\ cookie.sig = MAC(cookie.payload, resp.key)
    /\ cookie.payload.exp = now

\* C10: decode of the token a sign-in issued, under the secret it was signed
\* with and before the claims' expiresAt, answers Ok with the claims the
\* sign-in encoded: the same subjectId, role, issuedAt and expiresAt.
C10_RoundTrip ==
    (resp.op = "decode" /\ issued # NoIssue /\ cookie = issued.token
        /\ resp.key = issued.token.sig.key /\ issued.claims.expiresAt > now)
    => /\ resp.result.kind = "Ok"
       /\ ClaimsOf(resp.result.claims) = issued.claims

C10_Witness ==
    /\ resp.op = "decode" /\ issued # NoIssue /\ cookie = issued.token
    /\ resp.key = issued.token.sig.key /\ issued.claims.expiresAt > now
    /\ issued.claims.role = "admin" /\ now > issued.claims.issuedAt

----------------------------------------------------------------------------
(* Properties of sessions over a changing store (SpecSession) *)

\* The request presents the token of the latest sign-in, and it is valid.
HoldsIssued ==
    issued # NoIssue /\ cookie = issued.token /\ SignatureVerifies /\ Unexpired

\* C11: on a role-restricted route a gate decides a request that presents a
\* valid issued token by the role recorded at issuance, whatever role the
\* store holds for the user by now; the store's role never enters the decision.
C11_RoleFixedAtIssuance ==
    (Gated /\ Class = "role-restricted" /\ HoldsIssued)
    => (Outcome = "Allow" <=> issued.claims.role \in Required)

C11_Witness ==
    /\ Gated /\ Class = "role-restricted" /\ HoldsIssued
    /\ issued.claims.role = "admin" /\ users["a@x.com"].role = "user"
    /\ Outcome = "Allow"

\* C14: every sign-in ends with Ok, InvalidCredentials or AccountNotActive,
\* every gate decision is Allow, DenyUnauthenticated or DenyInsufficientRole,
\* and an authorization check by requireAuth / requireRole returns a value:
\* a missing session or an insufficient role is not thrown to the caller.
C14_TypedResults ==
    /\ resp.op = "signin"
          => AuthResult(resp.result) \in {"Ok", "InvalidCredentials", "AccountNotActive"}
    /\ Gated => Outcome \in {"Allow", "DenyUnauthenticated", "DenyInsufficientRole"}
    /\ resp.op = "require" => resp.result.kind # "throw"

\* The record of the spec's UserRecord: id, identifier, passwordHash, role, status.
UserRecordOf(u) ==
    IF u = NoUser THEN NoUser
    ELSE [id |-> u.id, identifier |-> u.identifier, passwordHash |-> u.password,
          role |-> u.role, status |-> u.status]

SignedOut == cookie = NoToken /\ issued # NoIssue

\* C18: after sign-out every request to a route that is not public is
\* DenyUnauthenticated and the Dashboard page sends to sign-in; nothing on the
\* server remembers the discarded token: presented again while it is valid, it
\* is allowed on a route that asks for a session.
C18_SignedOutIsUnauthenticated ==
    /\ (SignedOut /\ Gated /\ Class # "public") => Outcome = "DenyUnauthenticated"
    /\ (SignedOut /\ resp.op = "page") => resp.response = "redirect:/auth/sign-in"
    /\ (HoldsIssued /\ Gated /\ Class = "authenticated") => Outcome = "Allow"

C18_Witness ==
    /\ SignedOut /\ Gated /\ Class # "public" /\ Outcome = "DenyUnauthenticated"
    /\ issued.token.sig.key = NEXTAUTH_SECRET /\ issued.claims.expiresAt > now

----------------------------------------------------------------------------
(* Further properties of the sign-in handlers (SpecAuth) and the codec (Spec) *)

\* C12: the claims of a successful sign-in have issuedAt = now, expiresAt >
\* issuedAt, and expiresAt - issuedAt is rememberMeLifetimeSeconds when
\* remember-me was requested and lifetimeSeconds when it was not.
C12_ClaimsLifetime ==
    (resp.op = "signin" /\ resp.result.kind = "user")
    => /\ issued.claims.issuedAt = now
       /\ issued.claims.expiresAt > issued.claims.issuedAt
       /\ issued.claims.expiresAt - issued.claims.issuedAt =
             IF resp.rememberMe THEN rememberMeLifetimeSeconds ELSE lifetimeSeconds

\* C13: a sign-in for a record without a password hash is answered
\* InvalidCredentials, whatever the record's status.
C13_NoHashIsInvalidCredentials ==
    (SignedIn /\ Looked # NoUser /\ Looked.password = NoHash)
    => AuthResult(resp.result) = "InvalidCredentials"

\* C19: decode of a correctly signed token before its expiry answers Ok with
\* the claims of the token, the same at every such time, and a decode changes
\* neither the token nor anything else but the response.
C19_DecodeIdempotent ==
    /\ []( (resp.op = "decode" /\ cookie.sig = MAC(cookie.payload, resp.key)
                /\ cookie.payload.exp > now)
            => resp.result = [kind |-> "Ok", claims |-> cookie.payload] )
    /\ [][ resp'.op = "decode"
            => UNCHANGED <<users, config, now, cookie, issued, env, others, rateLimitMap>> ]_vars

C19_Witness ==
    /\ resp.op = "decode" /\ resp.result.kind = "Ok"
    /\ now > cookie.payload.iat /\ cookie.payload.exp > now

\* The message each client shows for a failed sign-in.
GenericMessage(handler) ==
    IF handler = "api" THEN "Sign in failed" ELSE "Invalid email or password"

----------------------------------------------------------------------------
(* Start-up (SpecEnv) and the rate limiter (SpecRate) *)

\* C15: whenever a token has been issued, or a decode has answered Ok, the
\* secret it was signed or verified with is configured and at least 32 long;
\* a process that serves requests has passed start-up with such secrets.
C15_SecretConfigured ==
    /\ issued # NoIssue
          => Serving /\ SecretLength(env, issued.token.sig.key) >= MinSecretLength
    /\ (resp.op = "decode" /\ resp.result.kind = "Ok")
          => SecretLength(env, resp.key) >= MinSecretLength
    /\ Serving => /\ env.NEXTAUTH_SECRET >= MinSecretLength
                  /\ env.JWT_SECRET >= MinSecretLength

\* C16: every sign-in and every authorization check is answered as it is
\* answered when it runs alone, with the same store, token and clock.
C16_IndependentOfOtherRequests ==
    /\ (resp.op = "signin" /\ resp.handler = "api")
          => resp.result = postSignInCheck(users, resp.email, resp.password)
    /\ resp.op = "api"
          => resp.response = gate("withAuth", config, cookie, now, resp.pathname, {})

----------------------------------------------------------------------------
(* Properties of the password hasher and of registration *)

\* C21: whatever the stored value of an active record (a hash of another
\* secret, a corrupt hash, no hash), a sign-in whose secret does not verify
\* ends in InvalidCredentials, never in an exception or a server error.
C21_VerifyNeverRaises ==
    (SignedIn /\ Looked # NoUser /\ Looked.status = "active"
        /\ (Looked.password \in {NoHash, CorruptHash}
              \/ ~compare(resp.password, Looked.password)))
    => AuthResult(resp.result) = "InvalidCredentials"

\* C22: no two calls of hash return the same hash, also for the same secret;
\* a hash verifies its own secret and no other.
C22_SaltedHash ==
    \A i \in 1..Len(history.hashed) :
        /\ \A j \in 1..Len(history.hashed) :
              i # j => history.hashed[i].hashed # history.hashed[j].hashed
        /\ \A s \in {"secret1", "secret2", "wrong"} :
              compare(s, history.hashed[i].hashed) <=> (s = history.hashed[i].secret)

C22_Witness ==
    \E i, j \in 1..Len(history.hashed) :
        i # j /\ history.hashed[i].secret = history.hashed[j].secret

\* C23: the user table never holds two rows with the same email, and of the
\* sign-ups for one email at most one is answered 201.
C23_UniqueIdentifier ==
    /\ \A r1, r2 \in userTable : r1.email = r2.email => r1 = r2
    /\ \A i, j \in 1..MaxSignUps :
          (i # j /\ signups[i].pc = "done" /\ signups[j].pc = "done"
               /\ signups[i].email = signups[j].email
               /\ signups[i].response.status = 201)
          => signups[j].response.status # 201

\* two sign-ups for one email both passed the lookup; one created the row
C23_Witness ==
    \E i, j \in 1..MaxSignUps :
        /\ signups[i].pc = "done" /\ signups[j].pc = "done"
        /\ signups[i].email = signups[j].email
        /\ signups[i].response.status = 201
        /\ signups[j].response.status = 500

----------------------------------------------------------------------------
(* Properties of the rate-limiting middleware (SpecRate) *)

\* C24: a request to /api/auth/ is answered 429 only after 10 requests to
\* /api/auth/ were admitted in the window, however many other API requests
\* were made in it.
C24_AuthLimit ==
    (resp.op = "signin" /\ resp.result.kind = "http" /\ resp.result.status = 429)
    => history.authAdmitted >= 10

----------------------------------------------------------------------------
(* Properties of the forms (SpecForms) *)

\* C25: once handleSubmit of the sign-in form has finished, isLoading is
\* false, whatever signIn came to.
C25_LoadingEnds ==
    signInForm.pc = "finished" => ~signInForm.isLoading

----------------------------------------------------------------------------
(* Properties of the pages (SpecPages) *)

\* C27: a visit to /dashboard, /auth/sign-in or /auth/sign-up ends after at
\* most one redirect; with a session it ends on /dashboard/overview, without
\* one on the sign-in form, or on the sign-up form from /auth/sign-up.
C27_RedirectsAgreeWithSession ==
    /\ location.redirects < MaxRedirects
    /\ location.state = "rendered" =>
          /\ location.redirects <= 1
          /\ IF location.withSession
             THEN location.path = "/dashboard/overview"
                    /\ location.view = "render:overview"
             ELSE location.view = (IF location.start = "/auth/sign-up"
                                   THEN "render:SignUpForm"
                                   ELSE "render:SignInForm")

----------------------------------------------------------------------------
(* Properties of the client auth store (SpecStore) *)

\* C28: isAuthenticated is true exactly when user is not null.
C28_AuthenticatedIffUser ==
    authStore.isAuthenticated <=> (authStore.user # JsNull)

\* C29: after signOut, and until another action of the store is called, user
\* is null, isAuthenticated is false and session.token is null, also when
\* requests that were in flight at the signOut complete.
C29_SignOutNotUndone ==
    history.signedOut =>
        /\ authStore.user = JsNull
        /\ ~authStore.isAuthenticated
        /\ authStore.session.token = JsNull

----------------------------------------------------------------------------
(* Public routes (Spec) *)

\* C30: on a public route every gate answers Allow, whatever token the
\* request carries.
C30_PublicAlwaysAllowed ==
    (Gated /\ Class = "public") => Outcome = "Allow"

====
